---- MODULE Spec2Model ----
(***************************************************************************)
(* Model of the time-series resampling engine of radiationMap:             *)
(*   web/src/resample.ts            resampleTimeSeries                     *)
(*   web/src/services/WindTiles.ts  resampleTimeSeries (with start / end)  *)
(* and of its two wind overlays:                                           *)
(*   web/src/services/WindTiles.ts    addUWindOverlay    (variable uw)     *)
(*   web/src/services/WindOverlay.ts  attachUWindOverlay (variable wo)     *)
(*                                                                         *)
(* Instants are integers, milliseconds since an arbitrary local midnight.  *)
(* A JavaScript "number | null" is a sequence: <<>> is null, <<n, d>> is   *)
(* the rational n / d in lowest terms with d > 0 (values are exact, the    *)
(* rounding of IEEE doubles is not modelled).  A "Date | null" is <<>> or  *)
(* <<ms>>.                                                                 *)
(***************************************************************************)
EXTENDS Integers, Sequences, FiniteSets, TLC

VARIABLES input, opts, clock, pc, impl, loc, ret, uw, wo

vars == <<input, opts, clock, pc, impl, loc, ret, uw, wo>>

(***************************************************************************)
(* Bounds of the model.                                                    *)
(***************************************************************************)
MaxRows == 3

(***************************************************************************)
(* Program constants.                                                      *)
(***************************************************************************)
MsPerMinute == 60000

MinutesPerHour == 60

MsPerSecond == 1000

HoursPerDay == 24

Null == <<>>

\* No overlay has been added to the map.
NoOverlay == <<>>

\* A function on 1..n as a sequence value (TLC tells the two apart otherwise).
AsSeq(f) == IF DOMAIN f = {} THEN <<>> ELSE SubSeq(f, 1, Len(f))

(***************************************************************************)
(* Exact arithmetic on values.                                             *)
(***************************************************************************)
Abs(x) == IF x < 0 THEN -x ELSE x

RECURSIVE Gcd(_, _)
Gcd(a, b) == IF b = 0 THEN a ELSE Gcd(b, a % b)

Rat(n, d) ==
    LET s == IF d < 0 THEN -1 ELSE 1
        g == Gcd(Abs(n), Abs(d))
    IN  <<(s * n) \div g, (s * d) \div g>>

Num(n) == <<n, 1>>

RAdd(a, b) == Rat(a[1] * b[2] + b[1] * a[2], a[2] * b[2])

RSub(a, b) == Rat(a[1] * b[2] - b[1] * a[2], a[2] * b[2])

RMul(a, b) == Rat(a[1] * b[1], a[2] * b[2])

RDivInt(a, k) == Rat(a[1], a[2] * k)

RLeq(a, b) == a[1] * b[2] <= b[1] * a[2]

IsNum(y) == Len(y) = 2

(***************************************************************************)
(* Time zones: a zone is its offset from UTC.  The instants of the model   *)
(* lie in January, away from any daylight-saving transition, so a zone's   *)
(* offset is fixed: Europe/Berlin +01:00, Asia/Kolkata +05:30.             *)
(***************************************************************************)
TimeZones == {"UTC"}

zoneOffsetMs(timeZone) ==
    CASE timeZone = "UTC" -> 0
      [] timeZone = "Europe/Berlin" -> 3600000
      [] timeZone = "Asia/Kolkata" -> 19800000
      [] OTHER -> 0

\* date-fns-tz toZonedTime: the wall-clock reading of an instant in a zone.
toZonedTime(utcMs, timeZone) == utcMs + zoneOffsetMs(timeZone)

\* date-fns-tz fromZonedTime: the instant of a wall-clock reading in a zone.
fromZonedTime(wallMs, timeZone) == wallMs - zoneOffsetMs(timeZone)

(***************************************************************************)
(* Raw inputs.  A timestamp input is [k, ms]; a raw value is [k, x].       *)
(*   timestamp kinds  "strZ"     ISO string ending in Z or in a UTC        *)
(*                               offset, instant ms                        *)
(*                    "strNaive" ISO string without offset, wall clock ms  *)
(*                    "strBad"   a string that is no timestamp ("bad")     *)
(*                    "strBlank" an empty or whitespace-only string        *)
(*                    "strEmpty" the empty string                          *)
(*                    "num"      epoch milliseconds                        *)
(*                    "numNaN"   a non-finite number                       *)
(*                    "date"     a Date                                    *)
(*                    "dateBad"  an Invalid Date                           *)
(*   value kinds      "num" finite number x, "nonfinite" NaN or +-Infinity,*)
(*                    "null", "undefined", "object" (any other type),      *)
(*                    "strNum" a string whose trimmed text is the decimal  *)
(*                    x, "strBlank" an empty or whitespace-only string,    *)
(*                    "strText" a string that is no number ("oops"),       *)
(*                    "frac" a finite number that is no integer, x the     *)
(*                    reduced fraction <<n, d>>                            *)
(***************************************************************************)
TsIn(k, ms) == [k |-> k, ms |-> ms]

Val(k, x) == [k |-> k, x |-> x]

\* resample.ts toNumberOrNull.  Number("") and Number("  ") are 0 in JavaScript.
toNumberOrNull(x) ==
    CASE x.k = "null" \/ x.k = "undefined" -> Null
      [] x.k = "num" -> Num(x.x)
      [] x.k = "frac" -> x.x
      [] x.k = "nonfinite" -> Null
      [] x.k = "strNum" -> Num(x.x)
      [] x.k = "strBlank" -> Num(0)
      [] x.k = "strText" -> Null
      [] OTHER -> Null

\* coerceValue without the skipZeros tests.
coerceValueKeepZero(v, skipZeros) ==
    CASE v.k = "null" \/ v.k = "undefined" -> Null
      [] v.k = "num" -> Num(v.x)
      [] v.k = "frac" -> v.x
      [] v.k = "nonfinite" -> Null
      [] v.k = "strBlank" -> Null
      [] v.k = "strNum" -> Num(v.x)
      [] v.k = "strText" -> Null
      [] OTHER -> Null

\* WindTiles.ts coerceValue.
coerceValue(v, skipZeros) ==
    CASE v.k = "null" \/ v.k = "undefined" -> Null
      [] v.k = "num" -> IF skipZeros /\ v.x = 0 THEN Null ELSE Num(v.x)
      [] v.k = "frac" -> v.x
      [] v.k = "nonfinite" -> Null
      [] v.k = "strBlank" -> Null
      [] v.k = "strNum" -> IF skipZeros /\ v.x = 0 THEN Null ELSE Num(v.x)
      [] v.k = "strText" -> Null
      [] OTHER -> Null

\* parseToUtcDate where a string without offset is read as UTC.
parseToUtcDateNaiveAsUtc(t, timeZone) ==
    CASE t.k \in {"date", "num", "strZ", "strNaive"} -> <<t.ms>>
      [] OTHER -> Null

\* parseToUtcDate (the same code in both files).
parseToUtcDate(t, timeZone) ==
    CASE t.k = "date" -> <<t.ms>>
      [] t.k = "dateBad" -> Null
      [] t.k = "num" -> <<t.ms>>
      [] t.k = "numNaN" -> Null
      [] t.k = "strBlank" -> Null
      [] t.k = "strEmpty" -> Null
      [] t.k = "strZ" -> <<t.ms>>
      [] t.k = "strBad" -> Null
      [] t.k = "strNaive" -> <<fromZonedTime(t.ms, timeZone)>>
      [] OTHER -> Null

(***************************************************************************)
(* resample.ts: helpers.                                                   *)
(***************************************************************************)
MsPerHour == MinutesPerHour * MsPerMinute

\* resample.ts floorToIntervalInTZ: the minute FIELD of the wall clock is
\* floored to a multiple of intervalMinutes, seconds and milliseconds zeroed.
floorToIntervalInTZ(utcInstant, intervalMinutes, timeZone) ==
    LET zoned == toZonedTime(utcInstant, timeZone)
        hourStart == zoned - (zoned % MsPerHour)
        minute == (zoned % MsPerHour) \div MsPerMinute
        flooredMinute == (minute \div intervalMinutes) * intervalMinutes
        wall == hourStart + flooredMinute * MsPerMinute
    IN  fromZonedTime(wall, timeZone)

RECURSIVE SumFrom(_, _, _)
SumFrom(arr, i, sum) ==
    IF i > Len(arr) THEN sum ELSE SumFrom(arr, i + 1, RAdd(sum, arr[i]))

\* mean without the test for the empty array, the sum being 0.
meanZeroWhenEmpty(arr) ==
    IF Len(arr) = 0 THEN Num(0) ELSE RDivInt(SumFrom(arr, 1, Num(0)), Len(arr))

\* mean that returns the sum, the division left out.
meanUndivided(arr) ==
    IF Len(arr) = 0 THEN Null ELSE SumFrom(arr, 1, Num(0))

\* resample.ts mean: null for an empty array.
mean(arr) ==
    IF Len(arr) = 0 THEN Null ELSE RDivInt(SumFrom(arr, 1, Num(0)), Len(arr))

\* The inner while loop of the interpolation: the first index >= i that is
\* not null, Len(out) + 1 when there is none.
RECURSIVE RunEnd(_, _)
RunEnd(out, right) ==
    IF right <= Len(out) /\ out[right] = Null THEN RunEnd(out, right + 1) ELSE right

\* Lerp with the weight taken from the right bound: (t1 - tk) / dt.
LerpFromRight(tsMs, out, left, right, k) ==
    LET t0 == tsMs[left]
        t1 == tsMs[right]
        y0 == out[left]
        y1 == out[right]
        dt == t1 - t0
        a == Rat(t1 - tsMs[k], dt)
    IN  RAdd(y0, RMul(a, RSub(y1, y0)))

\* The body of the for loop of the interpolation: the value written to bin k.
Lerp(tsMs, out, left, right, k) ==
    LET t0 == tsMs[left]
        t1 == tsMs[right]
        y0 == out[left]
        y1 == out[right]
        dt == t1 - t0
        a == Rat(tsMs[k] - t0, dt)
    IN  RAdd(y0, RMul(a, RSub(y1, y0)))

RECURSIVE InterpLoop(_, _, _)
InterpLoop(tsMs, out, i) ==
    IF i > Len(out) THEN out
    ELSE IF out[i] # Null THEN InterpLoop(tsMs, out, i + 1)
    ELSE LET left == i - 1
             right == RunEnd(out, i)
             new == IF left >= 1 /\ right <= Len(out) /\ tsMs[right] - tsMs[left] > 0
                    THEN AsSeq([k \in 1..Len(out) |->
                            IF left < k /\ k < right
                            THEN Lerp(tsMs, out, left, right, k)
                            ELSE out[k]])
                    ELSE out
         IN  InterpLoop(tsMs, new, right)

\* resample.ts interpolateLinearByTime (indices are 1-based here).
interpolateLinearByTime(tsMs, ys) == InterpLoop(tsMs, ys, 1)

RECURSIVE FFLoop(_, _, _)
FFLoop(out, i, last) ==
    IF i > Len(out) THEN out
    ELSE IF out[i] = Null
         THEN FFLoop([out EXCEPT ![i] = last], i + 1, last)
         ELSE FFLoop(out, i + 1, out[i])

\* forwardFill with the running value never recorded ("else last = out[i]" lost).
forwardFillNoLast(ys) == ys

\* resample.ts forwardFill.
forwardFill(ys) == FFLoop(ys, 1, Null)

RECURSIVE BFLoop(_, _, _)
BFLoop(out, i, next) ==
    IF i < 1 THEN out
    ELSE IF out[i] = Null
         THEN BFLoop([out EXCEPT ![i] = next], i - 1, next)
         ELSE BFLoop(out, i - 1, out[i])

\* backFill scanning from the first bin: "next" is never set before it is used.
backFillForward(ys) == ys

\* resample.ts backFill.
backFill(ys) == BFLoop(ys, Len(ys), Null)

\* A formatted timestamp: the wall-clock reading written, the UTC offset
\* written after it (in ms; 0 is written "Z"), and whether milliseconds are
\* written.
Stamp(wall, off, frac) == [wall |-> wall, off |-> off, frac |-> frac]

\* formatBinStart where the zone's wall clock is written with a "Z".
formatBinStartWallAsZ(binStartUtc, timeZone, outputInTimeZone) ==
    IF ~outputInTimeZone
    THEN Stamp(binStartUtc, 0, TRUE)
    ELSE Stamp(toZonedTime(binStartUtc, timeZone), 0, FALSE)

\* resample.ts formatBinStart: toISOString(), or formatInTimeZone with
\* "yyyy-MM-dd'T'HH:mm:ssXXX" (whole seconds, the zone's offset).
formatBinStart(binStartUtc, timeZone, outputInTimeZone) ==
    IF ~outputInTimeZone
    THEN Stamp(binStartUtc, 0, TRUE)
    ELSE LET wall == toZonedTime(binStartUtc, timeZone)
         IN  Stamp(wall - (wall % MsPerSecond), zoneOffsetMs(timeZone), FALSE)

\* Date.parse of a formatted timestamp.
StampInstant(s) == s.wall - s.off

(***************************************************************************)
(* Shared steps of resampleTimeSeries.                                     *)
(***************************************************************************)
MsPerDay == HoursPerDay * MsPerHour

\* parsed.sort((a, b) => a.tUtc.getTime() - b.tUtc.getTime()): a stable sort.
RECURSIVE InsertByTime(_, _)
InsertByTime(sorted, p) ==
    IF sorted = <<>> THEN <<p>>
    ELSE IF sorted[Len(sorted)].tUtc <= p.tUtc THEN Append(sorted, p)
    ELSE Append(InsertByTime(SubSeq(sorted, 1, Len(sorted) - 1), p), sorted[Len(sorted)])

RECURSIVE SortFrom(_, _, _)
SortFrom(parsed, i, acc) ==
    IF i > Len(parsed) THEN acc ELSE SortFrom(parsed, i + 1, InsertByTime(acc, parsed[i]))

\* sortByTime without the sort: the points stay in input order.
sortByTimeInOrder(parsed) == parsed

sortByTime(parsed) == SortFrom(parsed, 1, <<>>)

\* The splice loop of the lookback cutoff: points before cutoffUtc are removed.
dropBefore(parsed, cutoffUtc) == SelectSeq(parsed, LAMBDA p : ~(p.tUtc < cutoffUtc))

\* What one call leaves behind: the returned sequence, the place it returned
\* from, and its locals (empty where the call returned before setting them).
Locals(stage, parsed, tsMs, ys, interp, ffilled, filled) ==
    [stage |-> stage, parsed |-> parsed, tsMs |-> tsMs, ys |-> ys,
     interp |-> interp, ffilled |-> ffilled, filled |-> filled]

Outcome(retv, locals) == [ret |-> retv, loc |-> locals]

EarlyReturn(stage, parsed) ==
    Outcome(<<>>, Locals(stage, parsed, <<>>, <<>>, <<>>, <<>>, <<>>))

(***************************************************************************)
(* resample.ts resampleTimeSeries.                                         *)
(***************************************************************************)
\* parseRows where an unparseable timestamp ends the loop: nothing is kept.
parseRowsAbortOnBad(data, timeZone, skipZeros) ==
    IF \E i \in 1..Len(data) : parseToUtcDate(data[i].t, timeZone) = Null
    THEN <<>>
    ELSE AsSeq([i \in 1..Len(data) |->
            LET v == toNumberOrNull(data[i].v)
            IN  [tUtc |-> parseToUtcDate(data[i].t, timeZone)[1],
                 v |-> IF v # Null /\ skipZeros /\ v = Num(0) THEN Null ELSE v]])

\* 1) Parse + numeric coercion (lines 204-213).
parseRows(data, timeZone, skipZeros) ==
    LET one(row) ==
            LET v == toNumberOrNull(row.v)
            IN  [t |-> parseToUtcDate(row.t, timeZone),
                 v |-> IF v # Null /\ skipZeros /\ v = Num(0) THEN Null ELSE v]
        all == AsSeq([i \in 1..Len(data) |-> one(data[i])])
        kept == SelectSeq(all, LAMBDA p : p.t # Null)
    IN  AsSeq([i \in 1..Len(kept) |-> [tUtc |-> kept[i].t[1], v |-> kept[i].v]])

\* 2) Cutoff (lines 217-232): lookbackDays before the current time.
cutoffRows(parsed, lookbackDays, timeZone, nowMs) ==
    IF lookbackDays = Null THEN parsed
    ELSE LET nowZoned == toZonedTime(nowMs, timeZone)
             cutoffZoned == nowZoned - lookbackDays[1] * MsPerDay
             cutoffWall == toZonedTime(cutoffZoned, timeZone)
             cutoffUtc == fromZonedTime(cutoffWall, timeZone)
         IN  dropBefore(parsed, cutoffUtc)

\* The index computed for a parsed point (lines 264-271), 0-based.
binIndex(p, firstBinUtc, intervalMinutes, timeZone) ==
    (floorToIntervalInTZ(p.tUtc, intervalMinutes, timeZone) - firstBinUtc)
        \div (intervalMinutes * MsPerMinute)

\* buckets[i] (lines 262-275): the numeric values pushed for index i, in order.
bucket(parsed, i, firstBinUtc, binCount, intervalMinutes, timeZone) ==
    LET hit == SelectSeq(parsed, LAMBDA p :
                    /\ binIndex(p, firstBinUtc, intervalMinutes, timeZone) = i
                    /\ i >= 0 /\ i < binCount
                    /\ p.v # Null)
    IN  AsSeq([j \in 1..Len(hit) |-> hit[j].v])

\* outputRows with the test "if (!y) continue": a zero is skipped as well.
outputRowsSkipFalsy(tsMs, filled, timeZone, outputInTimeZone) ==
    LET idx == SelectSeq(AsSeq([i \in 1..Len(tsMs) |-> i]),
                         LAMBDA i : IsNum(filled[i]) /\ filled[i] # Num(0))
    IN  AsSeq([j \in 1..Len(idx) |->
            <<formatBinStart(tsMs[idx[j]], timeZone, outputInTimeZone), filled[idx[j]]>>])

\* 6) Output (lines 301-310): entries whose value is no finite number are skipped.
outputRows(tsMs, filled, timeZone, outputInTimeZone) ==
    LET idx == SelectSeq(AsSeq([i \in 1..Len(tsMs) |-> i]), LAMBDA i : IsNum(filled[i]))
    IN  AsSeq([j \in 1..Len(idx) |->
            <<formatBinStart(tsMs[idx[j]], timeZone, outputInTimeZone), filled[idx[j]]>>])

\* fillAndOutput with the forward fill run before the interpolation.
fillAndOutputFillFirst(parsed, tsMs, ys, o) ==
    LET interp == interpolateLinearByTime(tsMs, forwardFill(ys))
        ffilled == forwardFill(interp)
        filled == backFill(ffilled)
    IN  Outcome(outputRows(tsMs, filled, o.timeZone, o.outputInTimeZone),
                Locals("ok", parsed, tsMs, ys, interp, ffilled, filled))

\* 5) Interpolate + edge fills, 6) Output (lines 295-310).
fillAndOutput(parsed, tsMs, ys, o) ==
    LET interp == interpolateLinearByTime(tsMs, ys)
        ffilled == forwardFill(interp)
        filled == backFill(ffilled)
    IN  Outcome(outputRows(tsMs, filled, o.timeZone, o.outputInTimeZone),
                Locals("ok", parsed, tsMs, ys, interp, ffilled, filled))

\* "Nothing to save?" (lines 285-293).
saveBins(parsed, tsMs, ys, o) ==
    IF \A i \in 1..Len(ys) : ys[i] = Null
    THEN Outcome(<<>>, Locals("noData", parsed, tsMs, ys, <<>>, <<>>, <<>>))
    ELSE fillAndOutput(parsed, tsMs, ys, o)

\* Collect values per bin (lines 261-283).
collectBins(parsed, firstBinUtc, binCount, o) ==
    saveBins(parsed,
             AsSeq([i \in 1..binCount |->
                        firstBinUtc + (i - 1) * (o.intervalMinutes * MsPerMinute)]),
             AsSeq([i \in 1..binCount |->
                        mean(bucket(parsed, i - 1, firstBinUtc, binCount,
                                    o.intervalMinutes, o.timeZone))]),
             o)

\* The last bin (lines 245-255).
lastBin(parsed, o, nowMs) ==
    LET lastSampleBinUtc ==
            floorToIntervalInTZ(parsed[Len(parsed)].tUtc, o.intervalMinutes, o.timeZone)
        nowBinUtc == floorToIntervalInTZ(nowMs, o.intervalMinutes, o.timeZone)
    IN  IF o.extendToNow /\ nowBinUtc > lastSampleBinUtc THEN nowBinUtc ELSE lastSampleBinUtc

\* binCount and the test on it (lines 257-259).
countBins(parsed, firstBinUtc, lastBinUtc, o) ==
    IF ((lastBinUtc - firstBinUtc) \div (o.intervalMinutes * MsPerMinute)) + 1 <= 0
    THEN EarlyReturn("noBins", parsed)
    ELSE collectBins(parsed, firstBinUtc,
                     ((lastBinUtc - firstBinUtc) \div (o.intervalMinutes * MsPerMinute)) + 1, o)

\* Math.floor(minute / intervalMinutes) * intervalMinutes as JavaScript
\* computes it for every number: Null is NaN (a division by 0, or a product
\* with NaN or with an infinity).
flooredMinute(minute, o) ==
    IF o.intervalIs # "finite" \/ o.intervalMinutes = 0 THEN Null
    ELSE <<(minute \div o.intervalMinutes) * o.intervalMinutes>>

\* floorToIntervalInTZ (lines 93-116) for every intervalMinutes: the wall string
\* built from the floored minute is a time only when that minute is 00..59;
\* fromZonedTime gives the Invalid Date (Null) otherwise.
floorToIntervalDate(utcInstant, o) ==
    LET zoned == toZonedTime(utcInstant, o.timeZone)
        fm == flooredMinute((zoned % MsPerHour) \div MsPerMinute, o)
    IN  IF fm = Null THEN Null
        ELSE IF fm[1] < 0 \/ fm[1] >= MinutesPerHour THEN Null
        ELSE <<fromZonedTime(zoned - (zoned % MsPerHour) + fm[1] * MsPerMinute, o.timeZone)>>

\* lastBinUtc (lines 245-255) where a bin start may be the Invalid Date: a
\* comparison with NaN is false.
lastBinDate(lastSampleBin, nowBin, o) ==
    IF o.extendToNow /\ nowBin # Null /\ lastSampleBin # Null
    THEN (IF nowBin[1] > lastSampleBin[1] THEN nowBin ELSE lastSampleBin)
    ELSE lastSampleBin

\* buckets[idx] (lines 262-275) with a negative intervalMs.
bucketOfDate(parsed, i, firstBinUtc, o) ==
    LET hit == SelectSeq(parsed, LAMBDA p :
                    /\ floorToIntervalDate(p.tUtc, o) # Null
                    /\ (floorToIntervalDate(p.tUtc, o)[1] - firstBinUtc)
                            \div (o.intervalMinutes * MsPerMinute) = i
                    /\ p.v # Null)
    IN  AsSeq([j \in 1..Len(hit) |-> hit[j].v])

\* Lines 257-283 for an intervalMinutes that is not a positive finite number.
\* A NaN binCount passes "binCount <= 0"; buckets is then empty, idx is NaN,
\* and either buckets[NaN].push or new Array(NaN) throws.
degenerateBins(parsed, firstBin, lastBinD, o) ==
    IF firstBin = Null \/ lastBinD = Null
    THEN Outcome(<<>>, Locals("threw", parsed, <<>>, <<>>, <<>>, <<>>, <<>>))
    ELSE IF ((lastBinD[1] - firstBin[1]) \div (o.intervalMinutes * MsPerMinute)) + 1 <= 0
    THEN EarlyReturn("noBins", parsed)
    ELSE saveBins(parsed,
            AsSeq([i \in 1..(((lastBinD[1] - firstBin[1])
                                \div (o.intervalMinutes * MsPerMinute)) + 1) |->
                        firstBin[1] + (i - 1) * (o.intervalMinutes * MsPerMinute)]),
            AsSeq([i \in 1..(((lastBinD[1] - firstBin[1])
                                \div (o.intervalMinutes * MsPerMinute)) + 1) |->
                        mean(bucketOfDate(parsed, i - 1, firstBin[1], o))]),
            o)

\* 4) Bin range aligned in TZ (lines 237-259), on the sorted points.
binRange(parsed, o, nowMs) ==
    IF o.intervalIs = "finite" /\ o.intervalMinutes > 0
    THEN countBins(parsed,
                   floorToIntervalInTZ(parsed[1].tUtc, o.intervalMinutes, o.timeZone),
                   lastBin(parsed, o, nowMs), o)
    ELSE degenerateBins(parsed,
                        floorToIntervalDate(parsed[1].tUtc, o),
                        lastBinDate(floorToIntervalDate(parsed[Len(parsed)].tUtc, o),
                                    floorToIntervalDate(nowMs, o), o),
                        o)

\* The rest of the function once the cutoff is applied (lines 231-235).
afterCutoff(parsed1, o, nowMs) ==
    IF Len(parsed1) = 0 THEN EarlyReturn("cutoffEmpty", parsed1)
    ELSE binRange(sortByTime(parsed1), o, nowMs)

\* The rest of the function once the rows are parsed (lines 214-232).
afterParse(parsed0, o, nowMs) ==
    IF Len(parsed0) = 0 THEN EarlyReturn("noRows", parsed0)
    ELSE afterCutoff(cutoffRows(parsed0, o.lookbackDays, o.timeZone, nowMs), o, nowMs)

resampleTimeSeries(data, o, nowMs) ==
    afterParse(parseRows(data, o.timeZone, o.skipZeros), o, nowMs)

(***************************************************************************)
(* services/WindTiles.ts resampleTimeSeries and its helpers (WT_ where the *)
(* name is that of a resample.ts function).  The machine's own zone, which *)
(* Date.getTime() of a zoned Date and formatISO depend on, is UTC.         *)
(***************************************************************************)
\* WindTiles.ts floorToIntervalInTZ: the zoned epoch value is floored to a
\* multiple of intervalMs.
WT_floorToIntervalInTZ(dUtc, intervalMinutes, timeZone) ==
    LET ms == toZonedTime(dUtc, timeZone)
        intervalMs == intervalMinutes * MsPerMinute
        flooredMs == (ms \div intervalMs) * intervalMs
    IN  fromZonedTime(flooredMs, timeZone)

\* WindTiles.ts mean (only called on a non-empty array).
WT_mean(xs) == RDivInt(SumFrom(xs, 1, Num(0)), Len(xs))

\* WindTiles.ts linearInterpolateNulls: the loop of interpolateLinearByTime
\* with defensive undefined checks that never fire.
linearInterpolateNulls(tsMs, ys) == InterpLoop(tsMs, ys, 1)

\* WindTiles.ts forwardFill / backFill: the loops of resample.ts with "?? null".
WT_forwardFill(ys) == FFLoop(ys, 1, Null)

WT_backFill(ys) == BFLoop(ys, Len(ys), Null)

\* WindTiles.ts formatBinStart: date-fns formatISO (whole seconds, the
\* machine's offset), or formatInTimeZone as in resample.ts.
WT_formatBinStart(dUtc, timeZone, outputInTimeZone) ==
    IF ~outputInTimeZone
    THEN Stamp(dUtc - (dUtc % MsPerSecond), 0, FALSE)
    ELSE LET wall == toZonedTime(dUtc, timeZone)
         IN  Stamp(wall - (wall % MsPerSecond), zoneOffsetMs(timeZone), FALSE)

\* 1) Parse + coerce (lines 128-135).
WT_parseRows(data, timeZone, skipZeros) ==
    LET all == AsSeq([i \in 1..Len(data) |->
                    [t |-> parseToUtcDate(data[i].t, timeZone),
                     v |-> coerceValue(data[i].v, skipZeros)]])
        kept == SelectSeq(all, LAMBDA p : p.t # Null)
    IN  AsSeq([i \in 1..Len(kept) |-> [tUtc |-> kept[i].t[1], v |-> kept[i].v]])

\* The truthiness test of "opts.start ? ... : null": the number 0, NaN and the
\* empty string are falsy; a Date and every other string or number are truthy.
truthy(t) == ~(t.k = "num" /\ t.ms = 0) /\ t.k # "numNaN" /\ t.k # "strEmpty"

\* opts.start ? parseToUtcDate(opts.start, timeZone) : null
explicitBound(b, timeZone) ==
    IF b = Null THEN Null
    ELSE IF truthy(b[1]) THEN parseToUtcDate(b[1], timeZone) ELSE Null

WT_binIndex(p, startBinUtc, intervalMinutes, timeZone) ==
    (WT_floorToIntervalInTZ(p.tUtc, intervalMinutes, timeZone) - startBinUtc)
        \div (intervalMinutes * MsPerMinute)

\* WT_bucket where an index outside the range is clamped into the first or
\* the last bin instead of being skipped.
WT_bucketClamped(parsed, i, startBinUtc, binCount, intervalMinutes, timeZone) ==
    LET idx(p) == WT_binIndex(p, startBinUtc, intervalMinutes, timeZone)
        clamp(n) == IF n < 0 THEN 0 ELSE IF n >= binCount THEN binCount - 1 ELSE n
        hit == SelectSeq(parsed, LAMBDA p : clamp(idx(p)) = i /\ p.v # Null)
    IN  AsSeq([j \in 1..Len(hit) |-> hit[j].v])

\* buckets[idx] (lines 199-210).
WT_bucket(parsed, i, startBinUtc, binCount, intervalMinutes, timeZone) ==
    LET hit == SelectSeq(parsed, LAMBDA p :
                    /\ WT_binIndex(p, startBinUtc, intervalMinutes, timeZone) = i
                    /\ i >= 0 /\ i < binCount
                    /\ p.v # Null)
    IN  AsSeq([j \in 1..Len(hit) |-> hit[j].v])

\* 7) Format output (lines 224-232): one entry per bin, "filled[i] ?? null".
WT_outputRows(tsMs, filled, timeZone, outputInTimeZone) ==
    AsSeq([i \in 1..Len(tsMs) |->
        <<WT_formatBinStart(tsMs[i], timeZone, outputInTimeZone), filled[i]>>])

\* 6) Interpolate internal gaps + fill edges, 7) Format output (lines 218-232).
WT_fillAndOutput(parsed, tsMs, ys, o) ==
    LET interp == linearInterpolateNulls(tsMs, ys)
        ffilled == WT_forwardFill(interp)
        filled == WT_backFill(ffilled)
    IN  Outcome(WT_outputRows(tsMs, filled, o.timeZone, o.outputInTimeZone),
                Locals("ok", parsed, tsMs, ys, interp, ffilled, filled))

\* ys[i] = arr.length ? mean(arr) : null (lines 212-216).
WT_aggregate(arr) == IF Len(arr) > 0 THEN WT_mean(arr) ELSE Null

\* 4) Create bins, 5) Aggregate samples into bins (lines 193-216).
WT_collectBins(parsed, startBinUtc, binCount, o) ==
    WT_fillAndOutput(parsed,
        AsSeq([i \in 1..binCount |->
                    startBinUtc + (i - 1) * (o.intervalMinutes * MsPerMinute)]),
        AsSeq([i \in 1..binCount |->
                    WT_aggregate(WT_bucket(parsed, i - 1, startBinUtc, binCount,
                                           o.intervalMinutes, o.timeZone))]),
        o)

\* WT_countBins where an empty range is widened to one bin instead of
\* returning.
WT_countBinsAtLeastOne(parsed, startBinUtc, endBinUtc, o) ==
    IF \/ startBinUtc > endBinUtc
       \/ ((endBinUtc - startBinUtc) \div (o.intervalMinutes * MsPerMinute)) + 1 <= 0
    THEN WT_collectBins(parsed, startBinUtc, 1, o)
    ELSE WT_collectBins(parsed, startBinUtc,
            ((endBinUtc - startBinUtc) \div (o.intervalMinutes * MsPerMinute)) + 1, o)

\* "Ensure start <= end" and binCount (lines 186-191).
WT_countBins(parsed, startBinUtc, endBinUtc, o) ==
    IF \/ startBinUtc > endBinUtc
       \/ ((endBinUtc - startBinUtc) \div (o.intervalMinutes * MsPerMinute)) + 1 <= 0
    THEN EarlyReturn("noBins", parsed)
    ELSE WT_collectBins(parsed, startBinUtc,
            ((endBinUtc - startBinUtc) \div (o.intervalMinutes * MsPerMinute)) + 1, o)

\* The end bound (lines 148-158): explicit end, else the latest sample's bin;
\* then extendToNow.
WT_endBin(parsed0, o, nowMs) ==
    LET explicitEnd == explicitBound(o.end, o.timeZone)
        endBin0 == IF explicitEnd # Null
                   THEN WT_floorToIntervalInTZ(explicitEnd[1], o.intervalMinutes, o.timeZone)
                   ELSE WT_floorToIntervalInTZ(parsed0[Len(parsed0)].tUtc,
                                               o.intervalMinutes, o.timeZone)
        nowBinUtc == WT_floorToIntervalInTZ(nowMs, o.intervalMinutes, o.timeZone)
    IN  IF o.extendToNow /\ nowBinUtc > endBin0 THEN nowBinUtc ELSE endBin0

\* The start bound (lines 161-166 and 179-183), from the points that remain.
WT_startBin(parsed, o) ==
    LET explicitStart == explicitBound(o.start, o.timeZone)
    IN  IF explicitStart # Null
        THEN WT_floorToIntervalInTZ(explicitStart[1], o.intervalMinutes, o.timeZone)
        ELSE WT_floorToIntervalInTZ(parsed[1].tUtc, o.intervalMinutes, o.timeZone)

\* The lookback cutoff (lines 168-177), counted back from the end bin.
WT_cutoffRows(parsed0, endBinUtc, o) ==
    IF o.lookbackDays = Null THEN parsed0
    ELSE dropBefore(parsed0,
            endBinUtc - o.lookbackDays[1] * HoursPerDay * MinutesPerHour * MsPerMinute)

\* 3) Determine the effective bounds (lines 141-191), on the points that remain.
WT_bounds(parsed, endBinUtc, o) ==
    IF Len(parsed) = 0 THEN EarlyReturn("cutoffEmpty", parsed)
    ELSE WT_countBins(parsed, WT_startBin(parsed, o), endBinUtc, o)

\* The rest of the function once the rows are parsed and sorted (lines 136-191).
WT_afterParse(parsed0, o, nowMs) ==
    IF Len(parsed0) = 0 THEN EarlyReturn("noRows", parsed0)
    ELSE WT_bounds(WT_cutoffRows(parsed0, WT_endBin(parsed0, o, nowMs), o),
                   WT_endBin(parsed0, o, nowMs), o)

WT_resampleTimeSeries(data, o, nowMs) ==
    IF o.intervalIs # "finite" \/ o.intervalMinutes <= 0
    THEN EarlyReturn("badInterval", <<>>)
    ELSE WT_afterParse(sortByTime(WT_parseRows(data, o.timeZone, o.skipZeros)), o, nowMs)

(***************************************************************************)
(* The state machine: a caller builds an input row by row and then calls   *)
(* one of the two functions once.                                          *)
(***************************************************************************)
\* 00:50:00, 01:44:59 and 01:45:01: with 15-minute bins from 00:45 these are
\* the bins 0, 3 and 4.
Times == {3000000, 6299000, 6301000}

Stamps == {TsIn("strZ", t) : t \in Times}

BadTimes == {TsIn("strBad", 0), TsIn("strBlank", 0), TsIn("numNaN", 0), TsIn("dateBad", 0)}

OddValues == {Val("null", 0), Val("undefined", 0), Val("nonfinite", 0),
              Val("strBlank", 0), Val("strNum", 0)}

\* A sensor series: measurements, zeros and unreadable values at the three times.
SeriesRows ==
    [t : Stamps, v : {Val("num", 0), Val("num", 10), Val("num", 40), Val("strText", 0)}]

\* A dirty feed: rows with unparseable timestamps, and rows whose value is
\* of every other kind, among three good rows.
DirtyRows ==
    [t : BadTimes, v : {Val("num", 10)}]
    \cup [t : {TsIn("strZ", 3000000)}, v : OddValues \cup {Val("num", 10)}]
    \cup [t : {TsIn("strZ", 6299000), TsIn("strZ", 6301000)}, v : {Val("strNum", 40)}]

Rows == SeriesRows \cup DirtyRows

OneFeed(data) ==
    \/ \A i \in 1..Len(data) : data[i] \in SeriesRows
    \/ \A i \in 1..Len(data) : data[i] \in DirtyRows

Intervals == {15, 45}

Configs ==
    [intervalMinutes : Intervals, intervalIs : {"finite"},
     lookbackDays : {Null}, skipZeros : BOOLEAN,
     timeZone : TimeZones, outputInTimeZone : {FALSE}, extendToNow : {FALSE},
     start : {Null}, end : {Null}]

NoLocals == Locals("none", <<>>, <<>>, <<>>, <<>>, <<>>, <<>>)

Init ==
    /\ input = <<>>
    /\ opts \in Configs
    /\ clock = 0
    /\ pc = "input"
    /\ impl = "none"
    /\ loc = NoLocals
    /\ ret = <<>>
    /\ uw = NoOverlay
    /\ wo = NoOverlay

AddRow ==
    /\ pc = "input"
    /\ Len(input) < MaxRows
    /\ \E row \in Rows :
          /\ OneFeed(Append(input, row))
          /\ input' = Append(input, row)
    /\ UNCHANGED <<opts, clock, pc, impl, loc, ret, uw, wo>>

CallResample ==
    /\ pc = "input"
    /\ LET r == resampleTimeSeries(input, opts, clock)
       IN  /\ loc' = r.loc
           /\ ret' = r.ret
    /\ pc' = "done"
    /\ impl' = "resample"
    /\ UNCHANGED <<input, opts, clock, uw, wo>>

CallWindTiles ==
    /\ pc = "input"
    /\ LET r == WT_resampleTimeSeries(input, opts, clock)
       IN  /\ loc' = r.loc
           /\ ret' = r.ret
    /\ pc' = "done"
    /\ impl' = "windtiles"
    /\ UNCHANGED <<input, opts, clock, uw, wo>>

Next == AddRow \/ CallResample \/ CallWindTiles

Spec == Init /\ [][Next]_vars

(***************************************************************************)
(* The state machine of the range options: lookbackDays, start, end,       *)
(* extendToNow, the zone and the degenerate intervals, with the clock      *)
(* running between the samples' arrival and the call.                      *)
(***************************************************************************)
MaxSamples == 2

MaxTicks == 1

\* 1970-01-01T09:59:59Z, 1970-01-01T10:00:00Z and 1970-01-02T10:20:00Z: with
\* 60-minute bins in UTC the last bin starts at 10:00 of the second day, 24
\* hours after the second instant and 24 hours and a second after the first.
Early == 35999000

AtCut == 36000000

Late == 123600000

\* The clock moves in steps of 25 hours.
TickMs == 90000000

RangeStamps ==
    {TsIn("strZ", Early), TsIn("num", AtCut), TsIn("date", Late), TsIn("strNaive", Late)}

RangeRows ==
    [t : RangeStamps \ {TsIn("date", Late)}, v : {Val("num", 10)}]
        \cup {[t |-> TsIn("num", AtCut), v |-> Val("null", 0)],
              [t |-> TsIn("date", Late), v |-> Val("num", 40)]}

\* start: before the samples (08:10 of the first day), after them (12:00 of
\* the second day), or the number 0 (the epoch, 00:00 of the first day).
StartOptions == {Null, <<TsIn("strZ", 29400000)>>, <<TsIn("strZ", 129600000)>>, <<TsIn("num", 0)>>}

\* end: between the samples (12:10 of the first day).
EndOptions == {Null, <<TsIn("strZ", 43800000)>>}

RangeZones == {"UTC", "Asia/Kolkata"}

RangeConfigs ==
    [intervalMinutes : {60}, intervalIs : {"finite"},
     lookbackDays : {Null, <<1>>}, skipZeros : {FALSE},
     timeZone : RangeZones, outputInTimeZone : BOOLEAN, extendToNow : BOOLEAN,
     start : StartOptions, end : EndOptions]

\* intervalMinutes 0, -60, NaN and Infinity.
DegenerateConfigs ==
    [intervalMinutes : {0, -60}, intervalIs : {"finite"},
     lookbackDays : {Null}, skipZeros : {FALSE},
     timeZone : {"UTC"}, outputInTimeZone : {TRUE}, extendToNow : BOOLEAN,
     start : {Null}, end : {Null}]
    \cup
    [intervalMinutes : {0}, intervalIs : {"NaN", "Infinity"},
     lookbackDays : {Null}, skipZeros : {FALSE},
     timeZone : {"UTC"}, outputInTimeZone : {TRUE}, extendToNow : BOOLEAN,
     start : {Null}, end : {Null}]

RangeInit ==
    /\ input = <<>>
    /\ opts \in RangeConfigs \cup DegenerateConfigs
    /\ clock = Late
    /\ pc = "input"
    /\ impl = "none"
    /\ loc = NoLocals
    /\ ret = <<>>
    /\ uw = NoOverlay
    /\ wo = NoOverlay

\* The caller collects one more sample.
AddSample ==
    /\ pc = "input"
    /\ Len(input) < MaxSamples
    /\ \E row \in RangeRows : input' = Append(input, row)
    /\ UNCHANGED <<opts, clock, pc, impl, loc, ret, uw, wo>>

\* Time passes before the call: new Date() reads the clock.
Tick ==
    /\ pc = "input"
    /\ clock < Late + MaxTicks * TickMs
    /\ clock' = clock + TickMs
    /\ UNCHANGED <<input, opts, pc, impl, loc, ret, uw, wo>>

RangeNext == AddSample \/ Tick \/ CallResample \/ CallWindTiles

RangeSpec == RangeInit /\ [][RangeNext]_vars

(***************************************************************************)
(* The state machine of rows that arrive in any order: rows of one         *)
(* instant, rows either side of a bin boundary, a row without instant, a   *)
(* row without value and a negative reading (so that a mean or a line can  *)
(* pass through zero), with and without a lookback window.                 *)
(***************************************************************************)
MaxShuffled == 3

OrderRows ==
    {[t |-> TsIn("strZ", 3000000), v |-> Val("num", 10)],
     [t |-> TsIn("num", 3000000), v |-> Val("num", 40)],
     [t |-> TsIn("date", 3000000), v |-> Val("num", -10)],
     [t |-> TsIn("strZ", 6299000), v |-> Val("num", 10)],
     [t |-> TsIn("strZ", 6299000), v |-> Val("null", 0)],
     [t |-> TsIn("strZ", 6301000), v |-> Val("num", 40)],
     [t |-> TsIn("strBad", 0), v |-> Val("num", 10)]}

OrderConfigs ==
    [intervalMinutes : Intervals, intervalIs : {"finite"},
     lookbackDays : {Null, <<0>>}, skipZeros : BOOLEAN,
     timeZone : {"UTC"}, outputInTimeZone : {TRUE}, extendToNow : {FALSE},
     start : {Null}, end : {Null}]

\* The clock reads 01:44:59: the lookback window of resample.ts opens there.
OrderInit ==
    /\ input = <<>>
    /\ opts \in OrderConfigs
    /\ clock = 6299000
    /\ pc = "input"
    /\ impl = "none"
    /\ loc = NoLocals
    /\ ret = <<>>
    /\ uw = NoOverlay
    /\ wo = NoOverlay

\* The caller appends a row, in whatever order the rows come.
AppendRow ==
    /\ pc = "input"
    /\ Len(input) < MaxShuffled
    /\ \E row \in OrderRows : input' = Append(input, row)
    /\ UNCHANGED <<opts, clock, pc, impl, loc, ret, uw, wo>>

OrderNext == AppendRow \/ CallResample \/ CallWindTiles

OrderSpec == OrderInit /\ [][OrderNext]_vars

(***************************************************************************)
(* Properties.                                                             *)
(***************************************************************************)
Done == pc = "done"

BinCount == Len(loc.tsMs)

IntervalMs == opts.intervalMinutes * MsPerMinute

\* Some bin received a numeric aggregate.
AnyAggregate == \E i \in 1..Len(loc.ys) : loc.ys[i] # Null

FirstAggregate == CHOOSE i \in 1..Len(loc.ys) :
                    loc.ys[i] # Null /\ \A j \in 1..(i - 1) : loc.ys[j] = Null

LastAggregate == CHOOSE i \in 1..Len(loc.ys) :
                    loc.ys[i] # Null /\ \A j \in (i + 1)..Len(loc.ys) : loc.ys[j] = Null

\* C1: whenever some bin received a numeric aggregate, after interpolation,
\* forward-fill and back-fill every bin of the range holds a number; in
\* particular every bin from the first to the last aggregated bin does.
C1_AllBinsFilled ==
    (Done /\ AnyAggregate) =>
        /\ Len(loc.filled) = BinCount
        /\ \A i \in 1..BinCount : IsNum(loc.filled[i])
        /\ Len(ret) = BinCount
        /\ \A i \in 1..BinCount : IsNum(ret[i][2])

\* A call that interpolated an interior gap and forward-filled a trailing one.
C1_Witness ==
    /\ Done /\ impl = "resample" /\ BinCount = 5
    /\ loc.ys[1] # Null /\ loc.ys[2] = Null /\ loc.ys[3] = Null
    /\ loc.ys[4] # Null /\ loc.ys[5] = Null
    /\ \A i \in 1..5 : IsNum(loc.filled[i])

\* The bin start computed for an instant by the function that was called.
BinStartOf(t) ==
    IF impl = "resample"
    THEN floorToIntervalInTZ(t, opts.intervalMinutes, opts.timeZone)
    ELSE WT_floorToIntervalInTZ(t, opts.intervalMinutes, opts.timeZone)

\* C2: a non-empty result has exactly one entry per bin, in order: entry i
\* carries the instant start + i * intervalMinutes, where start is the bin of
\* the earliest retained sample, and the bin of the latest retained sample
\* is not beyond the last entry's bin; so the instants are strictly
\* increasing, with no duplicate and no missing bin.
C2_RegularGrid ==
    (Done /\ ret # <<>>) =>
        LET n == Len(ret)
            start == BinStartOf(loc.parsed[1].tUtc)
            end == BinStartOf(loc.parsed[Len(loc.parsed)].tUtc)
        IN  /\ n = BinCount
            /\ \A i \in 1..n : StampInstant(ret[i][1]) = start + (i - 1) * IntervalMs
            /\ \A i \in 1..(n - 1) :
                    StampInstant(ret[i + 1][1]) - StampInstant(ret[i][1]) = IntervalMs
            /\ StampInstant(ret[n][1]) <= end
            /\ end < StampInstant(ret[n][1]) + IntervalMs

\* A returned series of five bins, one of them holding the measurement 0.
C2_Witness ==
    /\ Done /\ impl = "resample" /\ Len(ret) = 5
    /\ \E i \in 1..5 : ret[i][2] = Num(0)
    /\ \E i \in 1..5 : ret[i][2] # Num(0)

\* The returned sequence has no entry without a number.
NoNullEntry == \A i \in 1..Len(ret) : IsNum(ret[i][2])

\* C3: when no bin receives a numeric aggregate the result is the empty
\* sequence, and no entry of a returned sequence carries null.
C3_EmptyWhenNoData ==
    Done => /\ (~AnyAggregate => ret = <<>>)
            /\ NoNullEntry

\* The null run around bin k of the aggregates: the nearest aggregated bin
\* before it and after it (0 and Len + 1 when there is none).
LeftBound(k) ==
    IF \E l \in 1..(k - 1) : loc.ys[l] # Null
    THEN CHOOSE l \in 1..(k - 1) :
            loc.ys[l] # Null /\ \A j \in (l + 1)..(k - 1) : loc.ys[j] = Null
    ELSE 0

RightBound(k) ==
    IF \E r \in (k + 1)..Len(loc.ys) : loc.ys[r] # Null
    THEN CHOOSE r \in (k + 1)..Len(loc.ys) :
            loc.ys[r] # Null /\ \A j \in (k + 1)..(r - 1) : loc.ys[j] = Null
    ELSE Len(loc.ys) + 1

\* y0 + (tk - t0) / (t1 - t0) * (y1 - y0)
OnTheLine(t0, y0, t1, y1, tk) ==
    LET w == Rat(tk - t0, t1 - t0)
    IN  Rat(y0[1] * y1[2] * w[2] + w[1] * (y1[1] * y0[2] - y0[1] * y1[2]),
            y0[2] * y1[2] * w[2])

\* C4: after the interpolation pass, every null bin k of a run bounded by
\* aggregated bins l and r holds y_l + (t_k - t_l) / (t_r - t_l) * (y_r - y_l),
\* and every bin of a run that touches the first or the last bin is still null.
C4_Interpolation ==
    (Done /\ loc.stage = "ok") =>
        \A k \in 1..BinCount :
            loc.ys[k] = Null =>
                LET l == LeftBound(k)
                    r == RightBound(k)
                IN  IF l >= 1 /\ r <= BinCount
                    THEN loc.interp[k] =
                            OnTheLine(loc.tsMs[l], loc.ys[l], loc.tsMs[r], loc.ys[r], loc.tsMs[k])
                    ELSE loc.interp[k] = Null

\* An interior run of two bins between different aggregates, and a trailing
\* run left null by the pass.
C4_Witness ==
    /\ Done /\ impl = "resample" /\ BinCount = 5
    /\ loc.ys[1] # Null /\ loc.ys[2] = Null /\ loc.ys[3] = Null
    /\ loc.ys[4] # Null /\ loc.ys[4] # loc.ys[1] /\ loc.ys[5] = Null
    /\ IsNum(loc.interp[2]) /\ IsNum(loc.interp[3]) /\ loc.interp[2] # loc.interp[3]
    /\ loc.interp[5] = Null

\* C5: in the final series every bin before the first aggregated bin holds
\* that first aggregate, and every bin after the last aggregated bin holds
\* that last aggregate.
C5_EdgeFill ==
    (Done /\ AnyAggregate) =>
        /\ \A i \in 1..(FirstAggregate - 1) : loc.filled[i] = loc.ys[FirstAggregate]
        /\ \A i \in (LastAggregate + 1)..BinCount : loc.filled[i] = loc.ys[LastAggregate]
        /\ \A i \in 1..Len(ret) :
                (i < FirstAggregate => ret[i][2] = loc.ys[FirstAggregate])
                /\ (i > LastAggregate => ret[i][2] = loc.ys[LastAggregate])

\* A lone aggregate in the fourth of five bins, copied to both edges.
C5_Witness ==
    /\ Done /\ impl = "resample" /\ BinCount = 5 /\ AnyAggregate
    /\ FirstAggregate = 4 /\ LastAggregate = 4
    /\ ret[1][2] = loc.ys[4] /\ ret[3][2] = loc.ys[4] /\ ret[5][2] = loc.ys[4]

\* The 0-based bin index the called function computes for a retained sample.
AssignedIndex(p) ==
    IF impl = "resample"
    THEN binIndex(p, loc.tsMs[1], opts.intervalMinutes, opts.timeZone)
    ELSE WT_binIndex(p, loc.tsMs[1], opts.intervalMinutes, opts.timeZone)

\* The retained samples with a numeric value that are assigned to bin i.
Contributors(i) ==
    {j \in 1..Len(loc.parsed) :
        AssignedIndex(loc.parsed[j]) = i - 1 /\ loc.parsed[j].v # Null}

RECURSIVE SumOfValues(_)
SumOfValues(S) ==
    IF S = {} THEN Num(0)
    ELSE LET j == CHOOSE x \in S : TRUE
         IN  RAdd(loc.parsed[j].v, SumOfValues(S \ {j}))

\* C6: the aggregate of a bin is the sum of the numeric values of the
\* retained samples assigned to it divided by their number, samples without
\* a numeric value counting in neither; a bin with no such sample is null.
C6_MeanOfBin ==
    (Done /\ BinCount > 0) =>
        \A i \in 1..BinCount :
            LET S == Contributors(i)
            IN  IF S = {}
                THEN loc.ys[i] = Null
                ELSE /\ IsNum(loc.ys[i])
                     /\ RMul(loc.ys[i], Num(Cardinality(S))) = SumOfValues(S)

\* A bin averaging two different measurements beside a row without a value,
\* and a bin with no measurement at all.
C6_Witness ==
    /\ Done /\ impl = "resample" /\ BinCount = 4
    /\ Cardinality(Contributors(4)) = 2
    /\ \E j \in Contributors(4) : loc.ys[4] # loc.parsed[j].v
    /\ \E j \in 1..Len(loc.parsed) :
            AssignedIndex(loc.parsed[j]) = 0 /\ loc.parsed[j].v = Null
    /\ loc.ys[1] = Null /\ loc.ys[2] = Null

\* C7: every retained sample whose instant lies inside the range of bins
\* is assigned to the bin whose interval contains it:
\* binStart(i) <= t < binStart(i) + intervalMinutes.
C7_SampleInItsBin ==
    (Done /\ BinCount > 0) =>
        \A j \in 1..Len(loc.parsed) :
            LET t == loc.parsed[j].tUtc
                i == AssignedIndex(loc.parsed[j])
            IN  (loc.tsMs[1] <= t /\ t < loc.tsMs[1] + BinCount * IntervalMs) =>
                    /\ 0 <= i /\ i < BinCount
                    /\ loc.tsMs[i + 1] <= t
                    /\ t < loc.tsMs[i + 1] + IntervalMs

\* The function the caller chose, applied to other rows.
CallOf(data) ==
    IF impl = "resample"
    THEN resampleTimeSeries(data, opts, clock)
    ELSE WT_resampleTimeSeries(data, opts, clock)

\* A timestamp that denotes no instant: a malformed or blank string, a
\* non-finite number, an Invalid Date.
BadStamp(t) == t.k \in {"strBad", "strBlank", "numNaN", "dateBad"}

GoodRows(data) == SelectSeq(data, LAMBDA row : ~BadStamp(row.t))

\* C8: rows with an unparseable timestamp are dropped: the bins, their
\* aggregates and the result are those of the input without these rows, and
\* the result is empty when no row is left.
C8_BadRowsDropped ==
    Done =>
        LET r == CallOf(GoodRows(input))
        IN  /\ ret = r.ret
            /\ loc.tsMs = r.loc.tsMs
            /\ loc.ys = r.loc.ys
            /\ GoodRows(input) = <<>> => ret = <<>>

\* A call on a feed with an unparseable row between two good ones.
C8_Witness ==
    /\ Done /\ impl = "resample" /\ Len(input) = 3
    /\ ~BadStamp(input[1].t) /\ BadStamp(input[2].t) /\ ~BadStamp(input[3].t)
    /\ Len(ret) = 5 /\ ret[1][2] # ret[5][2]

\* A raw value that is no finite number and no string holding one.
NoNumber(v) == v.k \in {"null", "undefined", "nonfinite", "strText", "strBlank"}

CountRows(data, Test(_)) == Cardinality({i \in 1..Len(data) : Test(data[i])})

\* C9: a row with a valid timestamp whose value is no number is retained,
\* with no value: every row with a valid timestamp is among the retained
\* samples, and at least as many of these are without a value as there are
\* such rows.
C9_NoNumberNoValue ==
    Done =>
        /\ Len(loc.parsed) = CountRows(input, LAMBDA row : ~BadStamp(row.t))
        /\ CountRows(loc.parsed, LAMBDA p : p.v = Null)
              >= CountRows(input, LAMBDA row : ~BadStamp(row.t) /\ NoNumber(row.v))

\* A raw value that is numerically zero.
IsZero(v) == v.k \in {"num", "strNum"} /\ v.x = 0

ZerosAsText(data) ==
    AsSeq([i \in 1..Len(data) |->
        IF IsZero(data[i].v) THEN [t |-> data[i].t, v |-> Val("strText", 0)] ELSE data[i]])

\* C10: with skipZeros a zero is treated exactly like a value that is no
\* number: the retained samples, the bins, the aggregates and the result are
\* those of the input with every zero replaced by such a value.  Without
\* skipZeros every zero with a valid timestamp is retained with the value 0.
C10_SkipZeros ==
    Done =>
        IF opts.skipZeros
        THEN LET r == CallOf(ZerosAsText(input))
             IN  /\ ret = r.ret
                 /\ loc = r.loc
                 /\ \A j \in 1..Len(loc.parsed) : loc.parsed[j].v # Num(0)
        ELSE CountRows(loc.parsed, LAMBDA p : p.v = Num(0))
                >= CountRows(input, LAMBDA row : ~BadStamp(row.t) /\ IsZero(row.v))

\* With skipZeros, a bin holding only a zero lies between two measurements
\* and is interpolated.
C10_Witness ==
    /\ Done /\ impl = "resample" /\ opts.skipZeros /\ BinCount = 5
    /\ \E i \in 1..Len(input) : IsZero(input[i].v) /\ input[i].t = TsIn("strZ", 6299000)
    /\ loc.ys[1] # Null /\ loc.ys[4] = Null /\ loc.ys[5] # Null /\ loc.ys[1] # loc.ys[5]
    /\ IsNum(loc.interp[4]) /\ ret[4][2] = loc.interp[4]

(***************************************************************************)
(* Properties of the range options (checked under RangeSpec).              *)
(***************************************************************************)
Degenerate(o) == o.intervalIs # "finite" \/ o.intervalMinutes <= 0

Threw == loc.stage = "threw"

\* C11: for every input, when intervalMinutes is zero, negative, NaN or
\* infinite, resampleTimeSeries returns the empty sequence and does not throw.
C11_DegenerateInterval ==
    (Done /\ Degenerate(opts)) => (ret = <<>> /\ ~Threw)

\* The rows of the input whose timestamp is an instant, in time order.
ValidSorted == sortByTime(WT_parseRows(input, opts.timeZone, opts.skipZeros))

\* No sample is left when the call returns: the cutoff dropped them all.
NothingRemains == ValidSorted # <<>> /\ loc.parsed = <<>>

\* The first and the last bin of the call, from the samples that remain.
EffectiveStart ==
    IF impl = "windtiles" THEN WT_startBin(loc.parsed, opts)
    ELSE floorToIntervalInTZ(loc.parsed[1].tUtc, opts.intervalMinutes, opts.timeZone)

EffectiveEnd ==
    IF impl = "windtiles" THEN WT_endBin(ValidSorted, opts, clock)
    ELSE lastBin(loc.parsed, opts, clock)

StartAfterEnd == loc.parsed # <<>> /\ EffectiveStart > EffectiveEnd

BinOf(t) ==
    IF impl = "windtiles" THEN WT_floorToIntervalInTZ(t, opts.intervalMinutes, opts.timeZone)
    ELSE floorToIntervalInTZ(t, opts.intervalMinutes, opts.timeZone)

Max(a, b) == IF a > b THEN a ELSE b

\* The end option as an instant (Null when it is not given; resample.ts has
\* no such option).
EndGiven == IF impl = "windtiles" THEN explicitBound(opts.end, opts.timeZone) ELSE Null

StartGiven == IF impl = "windtiles" THEN explicitBound(opts.start, opts.timeZone) ELSE Null

\* The end bound: the end option if given, else the latest sample's bin,
\* extended to the bin of the current time with extendToNow.
EndBound ==
    IF EndGiven # Null THEN BinOf(EndGiven[1])
    ELSE IF opts.extendToNow
         THEN Max(BinOf(ValidSorted[Len(ValidSorted)].tUtc), BinOf(clock))
         ELSE BinOf(ValidSorted[Len(ValidSorted)].tUtc)

Instants(parsed) == AsSeq([i \in 1..Len(parsed) |-> parsed[i].tUtc])

\* C13: with finite lookbackDays, exactly the samples strictly earlier than
\* (end bound - lookbackDays * 24 hours) are dropped before aggregation, a
\* sample exactly at the cutoff is kept, and the cutoff is measured from the
\* end bound, not from the current time.
C13_LookbackCutoff ==
    (Done /\ ~Degenerate(opts) /\ opts.lookbackDays # Null /\ ValidSorted # <<>>) =>
        Instants(loc.parsed) =
            Instants(dropBefore(ValidSorted, EndBound - opts.lookbackDays[1] * MsPerDay))

\* The instant of the start option: Null when the option is absent or is no
\* timestamp.
StartInstant == IF opts.start = Null THEN Null ELSE parseToUtcDate(opts.start[1], opts.timeZone)

EndInstant == IF opts.end = Null THEN Null ELSE parseToUtcDate(opts.end[1], opts.timeZone)

\* C14: when the start option is given, the first output bin is the bin
\* enclosing start, whatever lookbackDays and the earliest sample are; when it
\* is not given, the first output bin is the bin of the earliest sample that
\* remains after the lookback cutoff (rows with a null value count).
C14_StartBound ==
    (Done /\ impl = "windtiles" /\ ~Degenerate(opts) /\ ret # <<>>) =>
        loc.tsMs[1] = (IF StartInstant # Null THEN BinOf(StartInstant[1])
                       ELSE BinOf(loc.parsed[1].tUtc))

\* The bin of the latest sample that remains.
LatestBin == BinOf(loc.parsed[Len(loc.parsed)].tUtc)

\* C15: when the end option is given, the last output bin is the bin
\* enclosing end, also when extendToNow is true and the current time is later
\* than end; when it is not given, the last bin is the later of the latest
\* sample's bin and the bin of the current time if extendToNow is true, and
\* the latest sample's bin otherwise.
C15_EndBound ==
    (Done /\ ~Degenerate(opts) /\ ret # <<>>) =>
        loc.tsMs[Len(loc.tsMs)] =
            (IF impl = "windtiles" /\ EndInstant # Null THEN BinOf(EndInstant[1])
             ELSE IF opts.extendToNow THEN Max(LatestBin, BinOf(clock))
             ELSE LatestBin)

(***************************************************************************)
(* Properties of the whole function (checked under OrderSpec).             *)
(***************************************************************************)
\* The rearrangements of the positions 1..n.
Rearrangements(n) == {f \in [1..n -> 1..n] : \A i, j \in 1..n : f[i] = f[j] => i = j}

Rearranged(data, f) == AsSeq([i \in 1..Len(data) |-> data[f[i]]])

Clocks == {Late + k * TickMs : k \in 0..MaxTicks}

\* The same call made when the clock reads nowMs.
CallAt(nowMs) ==
    IF impl = "resample"
    THEN resampleTimeSeries(input, opts, nowMs)
    ELSE WT_resampleTimeSeries(input, opts, nowMs)

\* C17: two invocations with the same samples and the same configuration
\* return the same output, whatever the wall-clock time at each invocation
\* is, also with finite lookbackDays or extendToNow true.
C17_Determinism ==
    Done => \A nowMs \in Clocks : CallAt(nowMs).ret = ret

(***************************************************************************)
(* Properties of the helpers, seen through the calls of RangeSpec and Spec.*)
(***************************************************************************)
\* The instant a timestamp input stands for in a zone: the wall-clock value
\* minus the zone's offset for a string without Z or offset, the value itself
\* for a string with Z or offset, a number of milliseconds or a Date.
InstantIn(t, timeZone) ==
    IF t.k = "strNaive" THEN t.ms - zoneOffsetMs(timeZone) ELSE t.ms

\* The instants of the input rows in the configured zone, in time order.
InputInstants ==
    Instants(sortByTime(AsSeq([i \in 1..Len(input) |->
                                   [tUtc |-> InstantIn(input[i].t, opts.timeZone)]])))

FormatOf(t) ==
    IF impl = "resample" THEN formatBinStart(t, opts.timeZone, opts.outputInTimeZone)
    ELSE WT_formatBinStart(t, opts.timeZone, opts.outputInTimeZone)

MinuteFloor(t) ==
    LET wall == t + zoneOffsetMs(opts.timeZone)
        minute == (wall % MsPerHour) \div MsPerMinute
    IN  (wall - (wall % MsPerHour))
            + ((minute \div opts.intervalMinutes) * opts.intervalMinutes) * MsPerMinute
            - zoneOffsetMs(opts.timeZone)

\* C20: for every instant, positive interval and zone, floorToIntervalInTZ
\* returns the instant whose wall-clock fields in the zone are the same year,
\* month, day and hour, minute = floor(minute / interval) * interval, seconds
\* and milliseconds = 0; the result is never later than the input instant.
\* Seen on the first and the last bin, which are the aligner's results for the
\* earliest and the latest sample when no bound is configured.
C20_BinAligner ==
    (Done /\ ~Degenerate(opts) /\ loc.tsMs # <<>>
          /\ opts.start = Null /\ opts.end = Null /\ ~opts.extendToNow) =>
        /\ loc.tsMs[1] = MinuteFloor(loc.parsed[1].tUtc)
        /\ loc.tsMs[1] <= loc.parsed[1].tUtc
        /\ BinOf(loc.parsed[Len(loc.parsed)].tUtc)
               = MinuteFloor(loc.parsed[Len(loc.parsed)].tUtc)

(***************************************************************************)
(* Properties of the passes and of the whole function (checked under Spec  *)
(* and RangeSpec).                                                         *)
(***************************************************************************)
\* The value the line through the aggregated bins either side of k has at k.
LineAt(k) ==
    OnTheLine(loc.tsMs[LeftBound(k)], loc.ys[LeftBound(k)],
              loc.tsMs[RightBound(k)], loc.ys[RightBound(k)], loc.tsMs[k])

Interior(k) == LeftBound(k) >= 1 /\ RightBound(k) <= BinCount

\* C21: the passes run in the order interpolate, forward-fill, back-fill and
\* each only writes bins that are null when it runs: a bin with an aggregate
\* keeps it in the output, an interpolated value is computed from two
\* originally aggregated bins, and the fills change no interpolated bin.
C21_PassOrder ==
    (Done /\ loc.stage = "ok") =>
        \A k \in 1..BinCount :
            /\ loc.ys[k] # Null =>
                   /\ loc.interp[k] = loc.ys[k]
                   /\ loc.filled[k] = loc.ys[k]
                   /\ ret[k][2] = loc.ys[k]
            /\ loc.interp[k] # Null => loc.ffilled[k] = loc.interp[k]
            /\ loc.ffilled[k] # Null => loc.filled[k] = loc.ffilled[k]
            /\ (loc.ys[k] = Null /\ loc.interp[k] # Null) =>
                   (Interior(k) /\ loc.interp[k] = LineAt(k))
            /\ (loc.ys[k] = Null /\ Interior(k)) => loc.filled[k] = LineAt(k)

\* An interior run whose final values are neither neighbour's, next to a
\* trailing bin that the forward fill wrote.
C21_Witness ==
    /\ Done /\ impl = "windtiles" /\ BinCount = 5
    /\ loc.ys[1] # Null /\ loc.ys[2] = Null /\ loc.ys[3] = Null
    /\ loc.ys[4] # Null /\ loc.ys[5] = Null
    /\ loc.filled[2] # loc.ys[1] /\ loc.filled[3] # loc.ys[1]
    /\ loc.interp[5] = Null /\ loc.ffilled[5] = loc.ys[4]
    /\ ret[3][2] = loc.interp[3]

\* The retained samples with a numeric value that are assigned to some bin.
Aggregated == UNION {Contributors(i) : i \in 1..BinCount}

RowInstant(r) == parseToUtcDate(input[r].t, opts.timeZone)

\* Row r is retained by the call and its bin lies before the first or after
\* the last bin of the range.
OutOfRange(r) ==
    /\ RowInstant(r) # Null
    /\ \E j \in 1..Len(loc.parsed) : loc.parsed[j].tUtc = RowInstant(r)[1]
    /\ AssignedIndex([tUtc |-> RowInstant(r)[1]]) \notin 0..(BinCount - 1)

\* The input with the value of row r replaced by a text that is no number.
Unreadable(r) == [input EXCEPT ![r].v = Val("strText", 0)]

\* C23: a retained sample whose bin lies before the start bin or after the
\* end bin contributes to no bin: the aggregates and the output are those of
\* the same call with that sample's value non-numeric (it is not clamped into
\* the first or the last bin).
C23_OutOfRangeIgnored ==
    (Done /\ ~Degenerate(opts) /\ BinCount >= 1) =>
        \A r \in 1..Len(input) :
            OutOfRange(r) =>
                /\ CallOf(Unreadable(r)).ret = ret
                /\ CallOf(Unreadable(r)).loc.ys = loc.ys

\* An explicit end before the last sample: that sample carries the value 40,
\* the range has an aggregate, and 40 appears nowhere in the output.
C23_Witness ==
    /\ Done /\ impl = "windtiles" /\ BinCount >= 1 /\ AnyAggregate
    /\ \E r \in 1..Len(input) :
          /\ OutOfRange(r)
          /\ input[r].v = Val("num", 40)
          /\ AssignedIndex([tUtc |-> RowInstant(r)[1]]) >= BinCount
          /\ \A k \in 1..Len(ret) : ret[k][2] = Num(10)

(***************************************************************************)
(* The result used as the next input.                                      *)
(***************************************************************************)
\* An output value as a raw input value: the number itself, or null.
ValueIn(y) ==
    IF y = Null THEN Val("null", 0)
    ELSE IF y[2] = 1 THEN Val("num", y[1]) ELSE Val("frac", y)

\* The rows of a result as input rows: the timestamp strings carry a Z or an
\* offset and denote the instants they were formatted from.
AsInput(out) ==
    AsSeq([k \in 1..Len(out) |->
              [t |-> TsIn("strZ", StampInstant(out[k][1])), v |-> ValueIn(out[k][2])]])

NoRangeOptions ==
    /\ opts.lookbackDays = Null /\ ~opts.extendToNow
    /\ opts.start = Null /\ opts.end = Null

\* C24: without lookbackDays, extendToNow, start and end, resampling the
\* result again with the same configuration returns the same series (same
\* bin starts, same values), for every positive interval and both skipZeros.
C24_Idempotent ==
    (Done /\ ~Degenerate(opts) /\ NoRangeOptions) => CallOf(AsInput(ret)).ret = ret

\* The bin-start instants and the values of a result.
Series(out) == AsSeq([k \in 1..Len(out) |-> <<StampInstant(out[k][1]), out[k][2]>>])

\* C25: for timeZone UTC, every positive finite interval and every input,
\* without lookbackDays, extendToNow, start and end, resampleTimeSeries of
\* resample.ts and of WindTiles.ts return the same sequence of bin-start
\* instants and values.
C25_Agreement ==
    (Done /\ ~Degenerate(opts) /\ opts.timeZone = "UTC" /\ NoRangeOptions) =>
        Series(resampleTimeSeries(input, opts, clock).ret)
            = Series(WT_resampleTimeSeries(input, opts, clock).ret)

(***************************************************************************)
(* WindTiles.ts addUWindOverlay.  uw holds the closure of one call:        *)
(*   layer, disposed, timer, inflight, queued   the "let" variables        *)
(*       (layer and timer: whether the variable is non-null)               *)
(*   debounceMs     the option                                             *)
(*   timeouts       timeouts of this overlay pending in the browser        *)
(*   onMap          overlay layers attached to the map                     *)
(*   listening      whether onMove is registered for moveend / zoomend     *)
(*   ready          whether the map is loaded (whenReady has run)          *)
(*   view           whether the visible window meets the image             *)
(*   atImage, atRasters   executions of drawOnce suspended at "await       *)
(*       tiff.getImage..." and at "await image.readRasters"                *)
(*   requests       calls of drawOnce answered "queued = true" during the  *)
(*       draw in flight (counted up to MaxRequests)                        *)
(*   served         the requests the draw in flight was started for by the *)
(*       finally block (0 for a draw started by a call)                    *)
(*   lastExit       how the last execution that ended left the try block   *)
(***************************************************************************)
MaxRequests == 2

DebounceOptions == {0, 120}

Views == {"inside", "outside"}

Least(a, b) == IF a < b THEN a ELSE b

\* The state after "let layer = null; ... let queued = false" (lines 505-509).
NewOverlay(debounceMs, ready, view) ==
    [layer |-> FALSE, disposed |-> FALSE, timer |-> FALSE, inflight |-> FALSE,
     queued |-> FALSE, debounceMs |-> debounceMs, timeouts |-> 0, onMap |-> 0,
     listening |-> TRUE, ready |-> ready, view |-> view,
     atImage |-> 0, atRasters |-> 0, requests |-> 0, served |-> 0,
     lastExit |-> "none"]

\* drawOnce without the test of inflight: every call starts a render.
drawOnceUnguarded(u) ==
    IF u.disposed THEN u
    ELSE [u EXCEPT !.inflight = TRUE, !.atImage = @ + 1, !.served = 0]

\* drawOnce up to its first await (lines 511-525).
drawOnce(u) ==
    IF u.disposed THEN u
    ELSE IF u.inflight
         THEN [u EXCEPT !.queued = TRUE, !.requests = Least(@ + 1, MaxRequests)]
         ELSE [u EXCEPT !.inflight = TRUE, !.atImage = @ + 1, !.served = 0]

\* The finally block without the follow-up call.
finallyNoFollowUp(u, exit) ==
    [u EXCEPT !.inflight = FALSE, !.lastExit = exit]

\* The release placed after the try block instead of in a finally: it is
\* skipped when the body throws.
finallySkippedOnThrow(u, exit) ==
    IF exit \in {"imageError", "rastersError"}
    THEN [u EXCEPT !.lastExit = exit]
    ELSE LET v == [u EXCEPT !.inflight = FALSE, !.lastExit = exit]
         IN  IF v.queued /\ ~v.disposed
             THEN [drawOnce([v EXCEPT !.queued = FALSE])
                       EXCEPT !.served = v.requests, !.requests = 0]
             ELSE v

\* The finally block (lines 608-614).
finallyBlock(u, exit) ==
    LET v == [u EXCEPT !.inflight = FALSE, !.lastExit = exit]
    IN  IF v.queued /\ ~v.disposed
        THEN [drawOnce([v EXCEPT !.queued = FALSE])
                  EXCEPT !.served = v.requests, !.requests = 0]
        ELSE v

\* scheduleDraw (lines 617-628).
scheduleDraw(u) ==
    IF u.disposed THEN u
    ELSE IF u.debounceMs = 0 THEN drawOnce(u)
    ELSE [u EXCEPT !.timeouts = (IF u.timer THEN 0 ELSE @) + 1, !.timer = TRUE]

\* remove (lines 637-643).
remove(u) ==
    [u EXCEPT !.disposed = TRUE,
              !.timeouts = IF u.timer THEN 0 ELSE @,
              !.listening = FALSE,
              !.onMap = IF u.layer THEN @ - 1 ELSE @,
              !.layer = FALSE]

\* "if (layer) layer.remove(); layer = L.imageOverlay(...).addTo(map)"
\* (lines 603-607).
attachLayer(u) ==
    [u EXCEPT !.onMap = (IF u.layer THEN @ - 1 ELSE @) + 1, !.layer = TRUE]

\* The variables of the resampling machines, at rest.
NoCall ==
    /\ input = <<>>
    /\ opts = CHOOSE o \in Configs : TRUE
    /\ clock = 0
    /\ pc = "input"
    /\ impl = "none"
    /\ loc = NoLocals
    /\ ret = <<>>

calls == <<input, opts, clock, pc, impl, loc, ret>>

\* addUWindOverlay has returned: map.whenReady(() => scheduleDraw()) has run
\* the callback if the map was loaded, and onMove is registered.
OverlayInit ==
    /\ NoCall
    /\ wo = NoOverlay
    /\ \E d \in DebounceOptions, ready \in BOOLEAN, view \in Views :
          uw = IF ready THEN scheduleDraw(NewOverlay(d, TRUE, view))
               ELSE NewOverlay(d, FALSE, view)

\* The map finishes loading: the whenReady callback runs.
MapLoad ==
    /\ ~uw.ready
    /\ uw' = scheduleDraw([uw EXCEPT !.ready = TRUE])
    /\ UNCHANGED <<calls, wo>>

\* The map is moved or zoomed: onMove runs if it is registered.
MoveEnd ==
    /\ uw.ready
    /\ \E view \in Views :
          uw' = IF uw.listening THEN scheduleDraw([uw EXCEPT !.view = view])
                ELSE [uw EXCEPT !.view = view]
    /\ UNCHANGED <<calls, wo>>

\* The caller calls redraw() of the handle.
Redraw ==
    /\ uw' = drawOnce(uw)
    /\ UNCHANGED <<calls, wo>>

\* The debounce timer fires (lines 624-627).
TimerFires ==
    /\ uw.timeouts > 0
    /\ uw' = drawOnce([uw EXCEPT !.timeouts = @ - 1, !.timer = FALSE])
    /\ UNCHANGED <<calls, wo>>

\* The image is delivered: lines 527-541, to the return of an empty window or
\* to the await of readRasters.
ImageResolved ==
    /\ uw.atImage > 0
    /\ uw' = IF uw.view = "outside"
             THEN finallyBlock([uw EXCEPT !.atImage = @ - 1], "emptyWindow")
             ELSE [uw EXCEPT !.atImage = @ - 1, !.atRasters = @ + 1]
    /\ UNCHANGED <<calls, wo>>

\* Reading the image fails: the await throws.
ImageRejected ==
    /\ uw.atImage > 0
    /\ uw' = finallyBlock([uw EXCEPT !.atImage = @ - 1], "imageError")
    /\ UNCHANGED <<calls, wo>>

\* The rasters are delivered: lines 549-607, to the return without a 2D
\* context or to the new layer on the map.
RastersResolved ==
    /\ uw.atRasters > 0
    /\ \E ctx \in BOOLEAN :
          uw' = IF ctx
                THEN finallyBlock(attachLayer([uw EXCEPT !.atRasters = @ - 1]), "drawn")
                ELSE finallyBlock([uw EXCEPT !.atRasters = @ - 1], "noContext")
    /\ UNCHANGED <<calls, wo>>

\* readRasters fails: the await throws.
RastersRejected ==
    /\ uw.atRasters > 0
    /\ uw' = finallyBlock([uw EXCEPT !.atRasters = @ - 1], "rastersError")
    /\ UNCHANGED <<calls, wo>>

\* The caller calls remove() of the handle.
Remove ==
    /\ uw' = remove(uw)
    /\ UNCHANGED <<calls, wo>>

OverlayNext ==
    \/ MapLoad \/ MoveEnd \/ Redraw \/ TimerFires
    \/ ImageResolved \/ ImageRejected \/ RastersResolved \/ RastersRejected
    \/ Remove

OverlaySpec == OverlayInit /\ [][OverlayNext]_vars

\* Every await settles: the image and the rasters are delivered or refused.
OverlayLiveSpec ==
    /\ OverlayInit /\ [][OverlayNext]_vars
    /\ WF_vars(ImageResolved \/ ImageRejected)
    /\ WF_vars(RastersResolved \/ RastersRejected)

(***************************************************************************)
(* Properties of addUWindOverlay.                                          *)
(***************************************************************************)
\* The executions of the render body in progress.
Bodies == uw.atImage + uw.atRasters

\* C26: under every interleaving of redraw() calls, timer firings and
\* moveend / zoomend events, at most one execution of the render body of
\* drawOnce is in progress.
C26_OneRender == Bodies <= 1

\* A render is in progress, a call of redraw() was turned away and the
\* debounce timer of a map event is pending.
C26_Witness ==
    /\ Bodies = 1 /\ uw.inflight /\ uw.queued
    /\ uw.timeouts = 1 /\ uw.requests = MaxRequests

\* A draw was requested while the draw in flight was running.
Waiting == uw.inflight /\ uw.queued /\ ~uw.disposed

\* The draw in flight was started by the finally block of the draw before it,
\* and no request has been made since.
FollowUp == uw.inflight /\ uw.served >= 1 /\ ~uw.queued

\* A step of the finally block when requests are queued: one draw is started
\* for all of them; and the draws in progress only become fewer when no
\* request is queued or the overlay is removed.
OneFollowUp ==
    /\ (uw.queued /\ ~uw'.queued) =>
          /\ uw'.inflight /\ uw'.atImage + uw'.atRasters = 1
          /\ uw.requests >= 1 /\ uw'.served = uw.requests /\ uw'.requests = 0
    /\ (uw'.atImage + uw'.atRasters < Bodies) => (~uw.queued \/ uw.disposed)

\* C27: if a draw is requested while another draw is in flight and remove()
\* is not called, a further draw is started after the draw in flight ends;
\* any number of requests made during one draw collapse into exactly one
\* follow-up draw.
C27_NoLostRedraw ==
    /\ Waiting ~> (uw.disposed \/ FollowUp)
    /\ [][OneFollowUp]_vars

\* A follow-up draw in flight that answers two or more requests.
C27_Witness ==
    /\ FollowUp /\ ~uw.disposed /\ uw.served = MaxRequests
    /\ Bodies = 1 /\ uw.requests = 0

\* C28: once remove() has been called no overlay layer is attached to the
\* map, then or at any later time, also when a draw was in flight at the
\* call; and no timer remains pending.
C28_Disposal == uw.disposed => (uw.onMap = 0 /\ uw.timeouts = 0)

\* C29: whenever an execution of drawOnce that set inflight has ended - by
\* completion, by an early return (empty window, no 2D context) or by an
\* exception - inflight is false, unless the follow-up draw that the finally
\* block started holds it: inflight is never left set with no draw in
\* progress, so a failed or skipped draw does not block later draws.
C29_ReleaseOnExit == (Bodies = 0) => ~uw.inflight

\* The last draw that ended failed reading the rasters, and a draw started by
\* a later call is in flight.
C29_Witness ==
    /\ uw.lastExit = "rastersError"
    /\ uw.inflight /\ uw.served = 0 /\ Bodies = 1 /\ ~uw.disposed

(***************************************************************************)
(* WindOverlay.ts attachUWindOverlay.  wo holds the closure of one call:   *)
(*   raf        whether the variable raf is non-null                       *)
(*   frames     animation-frame callbacks of this overlay pending          *)
(*   view       the map: "A" and "B" are two views over the image, "off"   *)
(*              a view that does not meet it, "hidden" a map of size 0     *)
(*   awaiting   the executions of draw suspended at "await                 *)
(*              image.readRasters", in the order they started: b the       *)
(*              bounds read at line 42, last whether no draw started later *)
(*   shown      the url and the bounds of the overlay                      *)
(*   latest     the draw started most recently: its bounds, and whether it *)
(*              sets the overlay (it does not for a map of size 0, nor     *)
(*              when readRasters fails)                                    *)
(***************************************************************************)
MaxOverlap == 2

AttachViews == {"A", "B", "off", "hidden"}

\* canvas.toDataURL() after putImageData of the rasters read for bounds b,
\* after clearRect, and of the new canvas.
WindImage(b) == <<"wind", b>>

Cleared == <<"clear">>

Blank == <<"blank">>

Overlay(url, b) == [url |-> url, bounds |-> b]

\* The executions started earlier are no longer the latest.
Earlier(awaiting) == AsSeq([i \in 1..Len(awaiting) |-> [awaiting[i] EXCEPT !.last = FALSE]])

Without(awaiting, i) == SubSeq(awaiting, 1, i - 1) \o SubSeq(awaiting, i + 1, Len(awaiting))

\* schedule (lines 129-135).
schedule(w) ==
    [w EXCEPT !.frames = (IF w.raf THEN 0 ELSE @) + 1, !.raf = TRUE]

\* draw up to its return or its await (lines 35-78).
draw(w) ==
    CASE w.view = "hidden" ->
            [w EXCEPT !.latest = <<[b |-> w.view, shows |-> FALSE]>>,
                      !.awaiting = Earlier(@)]
      [] w.view = "off" ->
            [w EXCEPT !.shown = Overlay(Cleared, w.view),
                      !.latest = <<[b |-> w.view, shows |-> TRUE]>>,
                      !.awaiting = Earlier(@)]
      [] OTHER ->
            [w EXCEPT !.latest = <<[b |-> w.view, shows |-> TRUE]>>,
                      !.awaiting = Append(Earlier(@), [b |-> w.view, last |-> TRUE])]

\* draw after the await (lines 80-124): rasters, or nothing to draw.
drawn(w, i, got) ==
    [w EXCEPT !.shown = Overlay(IF got THEN WindImage(w.awaiting[i].b) ELSE Cleared,
                                w.awaiting[i].b),
              !.awaiting = Without(@, i)]

\* readRasters throws: draw().catch logs the error (line 133).
failed(w, i) ==
    [w EXCEPT !.awaiting = Without(@, i),
              !.latest = IF w.awaiting[i].last
                         THEN <<[b |-> w.awaiting[i].b, shows |-> FALSE]>> ELSE @]

\* attachUWindOverlay has returned (the map is loaded: line 32 reads its
\* bounds): the overlay shows the blank canvas and whenReady has run schedule.
AttachInit ==
    /\ NoCall
    /\ uw = NoOverlay
    /\ \E v \in AttachViews :
          wo = schedule([raf |-> FALSE, frames |-> 0, view |-> v, awaiting |-> <<>>,
                         shown |-> Overlay(Blank, v), latest |-> Null])

\* moveend, zoomend or resize: the map has a new view and schedule runs.
MapEvent ==
    /\ \E v \in AttachViews : wo' = schedule([wo EXCEPT !.view = v])
    /\ UNCHANGED <<calls, uw>>

\* The caller calls redraw() of the returned object.
RedrawCall ==
    /\ wo' = schedule(wo)
    /\ UNCHANGED <<calls, uw>>

\* The animation frame arrives: the callback starts draw (lines 131-134).
FrameFires ==
    /\ wo.frames > 0
    /\ Len(wo.awaiting) < MaxOverlap
    /\ wo' = draw([wo EXCEPT !.frames = @ - 1])
    /\ UNCHANGED <<calls, uw>>

\* readRasters of one of the suspended executions resolves.
RastersRead ==
    /\ \E i \in 1..Len(wo.awaiting), got \in BOOLEAN : wo' = drawn(wo, i, got)
    /\ UNCHANGED <<calls, uw>>

\* readRasters of one of the suspended executions rejects.
RastersFailed ==
    /\ \E i \in 1..Len(wo.awaiting) : wo' = failed(wo, i)
    /\ UNCHANGED <<calls, uw>>

AttachNext == RedrawCall \/ MapEvent \/ FrameFires \/ RastersRead \/ RastersFailed

AttachSpec == AttachInit /\ [][AttachNext]_vars

\* C30: schedule() keeps at most one animation-frame callback pending, and
\* when all overlapping executions of draw have completed, the image and the
\* bounds shown are those of the draw that was started most recently.
C30_LatestDrawWins ==
    /\ wo.frames <= 1
    /\ (wo.awaiting = <<>> /\ wo.latest # Null /\ wo.latest[1].shows) =>
          /\ wo.shown.bounds = wo.latest[1].b
          /\ wo.shown.url \in {WindImage(wo.latest[1].b), Cleared}

====
